---- MODULE Spec2Model ----
(***************************************************************************)
(* The DevTools frontend data source (BundledDataSource) of Electron.      *)
(*                                                                         *)
(* The repository holds two revisions of the data source:                  *)
(*   src/unnamed/part_000                 (build = "part_000")             *)
(*   src/shell/browser/ui/devtools_ui.cc  (build = "devtools_ui")          *)
(* A process is built from one of them; the definitions that model the     *)
(* second carry the suffix _ui.                                            *)
(*                                                                         *)
(* A string is a sequence of tokens.  "/", "?" and "#" are the one         *)
(* character tokens the code looks for; every other token stands for a     *)
(* non-empty run of characters holding none of the three.                  *)
(***************************************************************************)
EXTENDS Naturals, Sequences, FiniteSets

VARIABLES
  build,                     \* the source file the process is built from
  custom_devtools_frontend,  \* value of --custom-devtools-frontend
  requests,                  \* one record per StartDataRequest call, in call order
  pool,                      \* tasks handed to base::ThreadPool, not yet replied
  crashed                    \* the process was terminated (CHECK, abort)

vars == <<build, custom_devtools_frontend, requests, pool, crashed>>

\* Number of StartDataRequest calls explored.
MaxRequests == 2

------------------------------------------------------------------------------
(* Strings *)

\* std::string::npos, for 1-based positions.
npos == 0

\* s.substr(pos) for a 0-based pos <= s.size().
Substr(s, pos) == SubSeq(s, pos + 1, Len(s))

\* ASCII lower case of a token (base::CompareCase::INSENSITIVE_ASCII).
ToLowerASCII(tok) ==
  CASE tok = "BUNDLED" -> "bundled"
    [] tok = "SERVE_FILE" -> "serve_file"
    [] OTHER -> tok

\* base::StartsWith(str, search_for, base::CompareCase::INSENSITIVE_ASCII)
StartsWith(str, search_for) ==
  /\ Len(str) >= Len(search_for)
  /\ \A i \in 1..Len(search_for) : ToLowerASCII(str[i]) = search_for[i]

\* 1-based position of the first tok at or after 1-based position from, or npos.
Find(s, tok, from) ==
  IF \E i \in from..Len(s) : s[i] = tok
  THEN CHOOSE i \in from..Len(s) :
         /\ s[i] = tok
         /\ \A j \in from..(i - 1) : s[j] # tok
  ELSE npos

\* The part of s before the first token of stops.
Before(s, stops) ==
  IF \E i \in 1..Len(s) : s[i] \in stops
  THEN SubSeq(s, 1, (CHOOSE i \in 1..Len(s) :
                       /\ s[i] \in stops
                       /\ \A j \in 1..(i - 1) : s[j] \notin stops) - 1)
  ELSE s

\* s without its leading "/" tokens.
RECURSIVE SkipSlashes(_)
SkipSlashes(s) ==
  IF s # <<>> /\ Head(s) = "/" THEN SkipSlashes(Tail(s)) ELSE s

------------------------------------------------------------------------------
(* GURL *)

\* Tokens that begin an absolute URL ("http:").
Schemes == {"http:"}

\* Host tokens no URL canonicalizes with ("[" is an unterminated IPv6 literal).
InvalidHosts == {"["}

\* The path of host-and-path text (what follows the slashes of "//host/path"):
\* ok is FALSE when the host is empty or invalid.
AuthorityPath(s) ==
  IF s = <<>> \/ Head(s) \in InvalidHosts
  THEN [ok |-> FALSE, path |-> <<>>]
  ELSE [ok |-> TRUE, path |-> IF Tail(s) = <<>> THEN <<"/">> ELSE Tail(s)]

\* GURL("devtools://devtools").Resolve(relative).path(): the path component of
\* the resolved URL, "/" first; the empty string when resolution fails and
\* Resolve returns GURL().
ResolvePath(relative) ==
  LET r == Before(relative, {"?", "#"})
  IN  IF r # <<>> /\ Head(r) \in Schemes
      THEN AuthorityPath(SkipSlashes(Tail(r))).path
      ELSE IF Len(r) >= 2 /\ r[1] = "/" /\ r[2] = "/"
      THEN AuthorityPath(SkipSlashes(r)).path
      ELSE IF r # <<>> /\ Head(r) = "/"
      THEN r
      ELSE <<"/">> \o r

------------------------------------------------------------------------------
(* Collaborators: the bundled resource table, the file system, FilePath *)

\* Keys of the bundled resource table.
BundledTable == {<<"inspector.js">>, <<"inspector.html">>}

\* Directory named by a file: override URL, as path components.
Root == <<"root">>

\* Regular files that can be read, as path components.
Files == {<<"root", "inspector.html">>, <<"root", "inspector.js">>,
          <<"root", "a", "inspector.html">>}

\* scoped_refptr<base::RefCountedMemory> values handed to a callback.
Null == [kind |-> "null", of |-> <<>>]
ResourceBytes(key) == [kind |-> "resource", of |-> key]
FileBytes(path) == [kind |-> "file", of |-> path]
EmptyString == [kind |-> "empty", of |-> <<>>]

\* A static buffer holding the text "HTTP/1.1 404 Not Found\n\n".
CreateNotFoundResponse == [kind |-> "http404", of |-> <<>>]

\* content::DevToolsFrontendHost::GetFrontendResourceBytes(filename)
GetFrontendResourceBytes(filename) ==
  IF filename \in BundledTable THEN ResourceBytes(filename) ELSE Null

\* ReadFileForDevTools of part_000, run on the thread pool.
ReadFileForDevTools(path) ==
  IF path \in Files THEN FileBytes(path) ELSE CreateNotFoundResponse

\* ReadFileForDevTools of devtools_ui.cc: the read is commented out.
ReadFileForDevTools_ui(path) == EmptyString

\* The command line: no switch (GURL() is not valid), a file: URL of a
\* directory, a file: URL that FileURLToFilePath refuses, a remote URL.
Overrides == {"none", "file", "file_unmappable", "remote"}

\* GetCustomDevToolsFrontendURL().is_valid()
is_valid(url) == url # "none"

\* GURL::SchemeIsFile()
SchemeIsFile(url) == url \in {"file", "file_unmappable"}

\* net::FileURLToFilePath(url, &base_path): the return value and base_path.
FileURLToFilePath(url) ==
  IF url = "file" THEN [ok |-> TRUE, path |-> Root]
  ELSE [ok |-> FALSE, path |-> <<>>]

\* base::FilePath::AppendASCII, the result as path components.
AppendASCII(base_path, path) ==
  base_path \o SelectSeq(path, LAMBDA tok : tok # "/")

\* base::FilePath::IsParent: a component-wise strict prefix.
IsParent(parent, child) ==
  /\ Len(parent) < Len(child)
  /\ \A i \in 1..Len(parent) : parent[i] = child[i]

------------------------------------------------------------------------------
(* Free functions of the data source *)

\* PathWithoutParams: .substr(1) of the resolved path.  On an empty path
\* substr(1) is out of range and the process aborts: ok is FALSE.
PathWithoutParams(path) ==
  LET resolved == ResolvePath(path)
  IN  IF resolved = <<>>
      THEN [ok |-> FALSE, path |-> <<>>]
      ELSE [ok |-> TRUE, path |-> Substr(resolved, 1)]

\* chrome::kChromeUIDevToolsBundledPath followed by "/".
bundled_path_prefix == <<"bundled", "/">>

\* StripDevToolsRevisionWithPrefix.  The search starts at the 0-based
\* character prefix.length() + 1: one character past the marker, which is
\* inside or just past the token that follows it.
StripDevToolsRevisionWithPrefix(path, prefix) ==
  IF StartsWith(path, prefix)
  THEN LET found == Find(path, "/", Len(prefix) + 2)
       IN  IF found # npos THEN Substr(path, found) ELSE path
  ELSE path

------------------------------------------------------------------------------
(* BundledDataSource of part_000.  A handler is an operator from its         *)
(* arguments to what the call did: the record below.                          *)

\* What one StartDataRequest call did before it returned.
\*   provider   the branch that took the request
\*   consulted  GetFrontendResourceBytes was called, with key
\*   strips     the StripDevToolsRevisionWithPrefix calls: argument, prefix, result
\*   handed     StartFileRequest was entered, with rel
\*   posted     a read of full_path was posted to the thread pool
\*   runs       times the callback ran; result is what it received
\*   abort      the process was terminated inside the call, and by what
Untouched ==
  [provider |-> "none", consulted |-> FALSE, key |-> <<>>, strips |-> <<>>,
   handed |-> FALSE, rel |-> <<>>, posted |-> FALSE, full_path |-> <<>>,
   runs |-> 0, result |-> Null, abort |-> "none"]

\* std::move(callback).Run(bytes)
Run(did, bytes) == [did EXCEPT !.runs = @ + 1, !.result = bytes]

\* StartBundledDataRequest
StartBundledDataRequest(path) ==
  LET filename == PathWithoutParams(path)
      did == [Untouched EXCEPT !.provider = "bundled"]
  IN  IF ~filename.ok
      THEN [did EXCEPT !.abort = "out_of_range"]
      ELSE Run([did EXCEPT !.consulted = TRUE, !.key = filename.path],
               GetFrontendResourceBytes(filename.path))

\* StartFileRequest with the CHECK compiled out (a DCHECK in a release build).
StartFileRequest_unchecked(url, path) ==
  LET converted == FileURLToFilePath(url)
      base_path == converted.path
      full_path == AppendASCII(base_path, path)
      did == [Untouched EXCEPT !.provider = "file", !.handed = TRUE, !.rel = path]
  IN  IF ~converted.ok
      THEN Run(did, CreateNotFoundResponse)
      ELSE [did EXCEPT !.posted = TRUE, !.full_path = full_path]

\* StartFileRequest
StartFileRequest(url, path) ==
  LET converted == FileURLToFilePath(url)
      base_path == converted.path
      full_path == AppendASCII(base_path, path)
      did == [Untouched EXCEPT !.provider = "file", !.handed = TRUE, !.rel = path]
  IN  IF ~converted.ok
      THEN Run(did, CreateNotFoundResponse)
      ELSE IF ~IsParent(base_path, full_path)
      THEN [did EXCEPT !.abort = "CHECK"]
      ELSE [did EXCEPT !.posted = TRUE, !.full_path = full_path]

\* MaybeHandleCustomRequest returning false for a remote override, so that the
\* caller falls through to the bundled table.
MaybeHandleCustomRequest_fallthrough(url, path) ==
  IF ~is_valid(url) \/ ~SchemeIsFile(url)
  THEN [handled |-> FALSE, did |-> Untouched]
  ELSE
    LET s1 == StripDevToolsRevisionWithPrefix(path, <<"serve_rev", "/">>)
        s2 == StripDevToolsRevisionWithPrefix(s1, <<"serve_file", "/">>)
        s3 == StripDevToolsRevisionWithPrefix(s2, <<"serve_internal_file", "/">>)
        stripped_path == PathWithoutParams(s3)
    IN  [handled |-> TRUE,
         did |-> IF ~stripped_path.ok
                 THEN [Untouched EXCEPT !.provider = "file", !.abort = "out_of_range"]
                 ELSE StartFileRequest(url, stripped_path.path)]

\* MaybeHandleCustomRequest: the return value, and what the call did.
MaybeHandleCustomRequest(url, path) ==
  IF ~is_valid(url)
  THEN [handled |-> FALSE, did |-> Untouched]
  ELSE
    LET s1 == StripDevToolsRevisionWithPrefix(path, <<"serve_rev", "/">>)
        s2 == StripDevToolsRevisionWithPrefix(s1, <<"serve_file", "/">>)
        s3 == StripDevToolsRevisionWithPrefix(s2, <<"serve_internal_file", "/">>)
        strips == << [path |-> path, prefix |-> <<"serve_rev", "/">>, result |-> s1],
                     [path |-> s1, prefix |-> <<"serve_file", "/">>, result |-> s2],
                     [path |-> s2, prefix |-> <<"serve_internal_file", "/">>,
                      result |-> s3] >>
        stripped_path == PathWithoutParams(s3)
    IN  IF SchemeIsFile(url)
        THEN [handled |-> TRUE,
              did |-> IF ~stripped_path.ok
                      THEN [Untouched EXCEPT !.provider = "file", !.strips = strips,
                                             !.abort = "out_of_range"]
                      ELSE [StartFileRequest(url, stripped_path.path)
                              EXCEPT !.strips = strips]]
        ELSE [handled |-> TRUE,
              did |-> [Untouched EXCEPT !.provider = "custom", !.strips = strips]]

\* StartDataRequest, from URLToRequestPath(url) to its return.
StartDataRequestDid(url, path) ==
  IF StartsWith(path, bundled_path_prefix)
  THEN LET path_without_params == PathWithoutParams(path)
       IN  IF ~path_without_params.ok
           THEN [Untouched EXCEPT !.abort = "out_of_range"]
           ELSE LET path_under_bundled ==
                      Substr(path_without_params.path, Len(bundled_path_prefix))
                    custom == MaybeHandleCustomRequest(url, path_under_bundled)
                IN  IF ~custom.handled
                    THEN StartBundledDataRequest(path_under_bundled)
                    ELSE custom.did
  ELSE Run(Untouched, Null)

------------------------------------------------------------------------------
(* BundledDataSource of devtools_ui.cc *)

\* StartBundledDataRequest
StartBundledDataRequest_ui(path) ==
  LET filename == PathWithoutParams(path)
      did == [Untouched EXCEPT !.provider = "bundled"]
  IN  IF ~filename.ok
      THEN [did EXCEPT !.abort = "out_of_range"]
      ELSE Run([did EXCEPT !.consulted = TRUE, !.key = filename.path],
               GetFrontendResourceBytes(filename.path))

\* StartFileRequest: the conversion of the override URL is commented out, and
\* base_path stays the empty FilePath.
StartFileRequest_ui(path) ==
  LET base_path == <<>>
      full_path == AppendASCII(base_path, path)
      did == [Untouched EXCEPT !.provider = "file", !.handed = TRUE, !.rel = path]
  IN  IF ~IsParent(base_path, full_path)
      THEN [did EXCEPT !.abort = "CHECK"]
      ELSE [did EXCEPT !.posted = TRUE, !.full_path = full_path]

\* StartDataRequest.  path_under_bundled is used and not declared in this
\* revision: the caller of this operator supplies any value for it.
StartDataRequestDid_ui(url, path, path_under_bundled) ==
  IF ~is_valid(url)
  THEN IF StartsWith(path, bundled_path_prefix)
       THEN StartBundledDataRequest_ui(Substr(path, Len(bundled_path_prefix)))
       ELSE Untouched
  ELSE IF SchemeIsFile(url)
  THEN StartFileRequest_ui(path_under_bundled)
  ELSE Run(Untouched, Null)

\* Values tried for the undeclared path_under_bundled.
PathUnderBundledValues == {<<>>, <<"inspector.js">>}

------------------------------------------------------------------------------
(* The state machine *)

\* Request paths, as content::URLDataSource::URLToRequestPath returns them for
\* a canonical devtools:// URL: a path with no "." or ".." segment, then the
\* query and the fragment.
RawPaths ==
  { <<"bundled", "/", "inspector.js">>,
    <<"BUNDLED", "/", "inspector.js">>,
    <<"bundled", "/", "inspector.js", "?", "q">>,
    <<"bundled", "/", "inspector.html", "#", "f">>,
    <<"bundled", "/", "missing.js">>,
    <<"bundled", "/">>,
    <<"bundled", "/", "/", "inspector.js">>,
    <<"bundled", "/", "serve_file", "/", "123", "/", "inspector.html">>,
    <<"bundled", "/", "SERVE_FILE", "/", "123", "/", "inspector.html">>,
    <<"bundled", "/", "serve_rev", "/", "123", "/", "missing.html">>,
    <<"bundled", "/", "serve_internal_file", "/", "123", "/", "inspector.js">>,
    <<"bundled", "/", "serve_file", "/", "123">>,
    <<"bundled", "/", "serve_file", "/", "/", "a", "/", "inspector.html">>,
    <<"bundled", "/", "http:", "/", "/", "host", "/", "inspector.js">>,
    <<"bundled", "/", "http:", "/", "/", "[", "/", "inspector.js">>,
    <<"inspector.js">>,
    <<"other", "/", "inspector.js">>,
    <<"bundled">>,
    <<>> }

\* base::ThreadPool::PostTaskAndReplyWithResult: the task bound to the path, the
\* reply bound to the callback of request id.
PostTaskAndReplyWithResult(id, full_path) ==
  [id |-> id, path |-> full_path, state |-> "posted", result |-> Null]

\* A reply that runs the callback of the latest request, as it would were the
\* callback kept in a member of the data source instead of bound to the task.
ReplyCallback_latest(t) == Len(requests)

\* The request whose callback the reply of task t runs.
ReplyCallback(t) == t.id

\* The record of a call that did `did`.
Called(path, did) == [path |-> path, atreturn |-> did, did |-> did]

\* The state after a call that did `did`.
Returned(path, did) ==
  /\ requests' = Append(requests, Called(path, did))
  /\ pool' = IF did.posted
             THEN pool \cup {PostTaskAndReplyWithResult(Len(requests) + 1, did.full_path)}
             ELSE pool
  /\ crashed' = (did.abort # "none")
  /\ UNCHANGED <<build, custom_devtools_frontend>>

Init ==
  /\ build \in {"part_000", "devtools_ui"}
  /\ custom_devtools_frontend \in Overrides
  /\ requests = <<>>
  /\ pool = {}
  /\ crashed = FALSE

\* The host calls StartDataRequest of part_000.
StartDataRequest ==
  /\ ~crashed
  /\ build = "part_000"
  /\ Len(requests) < MaxRequests
  /\ \E path \in RawPaths :
       Returned(path, StartDataRequestDid(custom_devtools_frontend, path))

\* The host calls StartDataRequest of devtools_ui.cc.
StartDataRequest_ui ==
  /\ ~crashed
  /\ build = "devtools_ui"
  /\ Len(requests) < MaxRequests
  /\ \E path \in RawPaths, path_under_bundled \in PathUnderBundledValues :
       Returned(path, StartDataRequestDid_ui(custom_devtools_frontend, path,
                                             path_under_bundled))

\* A pool thread runs a posted read.
RunTask ==
  /\ ~crashed
  /\ \E t \in pool :
       /\ t.state = "posted"
       /\ pool' = (pool \ {t}) \cup
                  {[t EXCEPT !.state = "done",
                             !.result = IF build = "part_000"
                                        THEN ReadFileForDevTools(t.path)
                                        ELSE ReadFileForDevTools_ui(t.path)]}
  /\ UNCHANGED <<build, custom_devtools_frontend, requests, crashed>>

\* The reply of a finished read runs the callback on the origin sequence.
Reply ==
  /\ ~crashed
  /\ \E t \in pool :
       /\ t.state = "done"
       /\ pool' = pool \ {t}
       /\ requests' = [requests EXCEPT ![ReplyCallback(t)].did = Run(@, t.result)]
  /\ UNCHANGED <<build, custom_devtools_frontend, crashed>>

Next == StartDataRequest \/ StartDataRequest_ui \/ RunTask \/ Reply

Spec == Init /\ [][Next]_vars

------------------------------------------------------------------------------
(* The claims *)

Ids == 1..Len(requests)

\* Request i has a read in the pool whose reply has not run.
Pending(i) == \E t \in pool : t.id = i

\* The request path is under the bundled-resource prefix.
UnderBundled(i) == StartsWith(requests[i].path, bundled_path_prefix)

\* root is a strict ancestor of p, component by component.
StrictAncestor(root, p) ==
  Len(p) > Len(root) /\ SubSeq(p, 1, Len(root)) = root

\* The components of root joined with relative.
Candidate(root, relative) ==
  root \o SelectSeq(relative, LAMBDA tok : tok # "/")

\* The absent and the not-found results.
IsNotFound(bytes) == bytes.kind \in {"null", "http404"}

\* C1: every request gets its callback run exactly once: before the entry
\* point returns on the bundled-table path, once after the read on the file
\* path, never twice and never zero times.  Stated of the requests whose
\* handler was not terminated and whose read, if any, has been replied to.
C1_RespondsExactlyOnce ==
  \A i \in Ids :
    LET r == requests[i]
    IN  (r.did.abort = "none" /\ ~Pending(i)) =>
          /\ r.did.runs = 1
          /\ (r.did.provider = "bundled" => r.atreturn.runs = 1)
          /\ (r.did.posted => r.atreturn.runs = 0)

\* C2: in part_000 every read submitted to the thread pool is for a path of
\* which the directory of the override URL is a strict ancestor: never the
\* directory itself, never a path outside it.
C2_ReadsUnderRoot ==
  build = "part_000" =>
    /\ \A i \in Ids : requests[i].did.posted =>
         /\ StrictAncestor(Root, requests[i].did.full_path)
         /\ requests[i].did.full_path = Candidate(Root, requests[i].did.rel)
    /\ \A t \in pool : StrictAncestor(Root, t.path)

\* C2's case: one request's read was submitted, and a request whose candidate
\* path is the root itself reached StartFileRequest and no read was submitted
\* for it.
C2_Witness ==
  /\ build = "part_000"
  /\ \E i, j \in Ids :
       /\ requests[i].did.posted
       /\ requests[j].did.handed
       /\ ~StrictAncestor(Root, Candidate(Root, requests[j].did.rel))
       /\ ~requests[j].did.posted

\* The directory StartFileRequest joins the relative path to.
BasePath == IF build = "part_000" THEN Root ELSE <<>>

\* C3: a request handed to StartFileRequest whose candidate path does not have
\* the root as a strict ancestor is completed with a not-found result given to
\* its callback, and the handler goes on serving.
C3_EscapeIsNotFound ==
  \A i \in Ids :
    LET d == requests[i].did
    IN  ( /\ d.handed
          /\ build = "part_000" => custom_devtools_frontend = "file"
          /\ ~StrictAncestor(BasePath, Candidate(BasePath, d.rel)) ) =>
          /\ d.runs = 1
          /\ IsNotFound(d.result)
          /\ ~crashed

\* C4: in part_000, for a request under the bundled prefix the override alone
\* chooses the provider: none, the bundled table and no file read; a file:
\* URL, the file resolver and no table lookup; a remote URL, neither.  The
\* table is never consulted while an override is configured, and a result that
\* was delivered came from exactly one of the two.
C4_ProviderByOverride ==
  build = "part_000" =>
    \A i \in Ids : UnderBundled(i) =>
      LET d == requests[i].did
      IN  /\ custom_devtools_frontend = "none" =>
               d.provider = "bundled" /\ ~d.handed /\ ~d.posted
          /\ custom_devtools_frontend \in {"file", "file_unmappable"} =>
               d.provider = "file" /\ ~d.consulted
          /\ custom_devtools_frontend = "remote" =>
               d.provider = "custom" /\ ~d.consulted /\ ~d.handed /\ ~d.posted
          /\ d.consulted => custom_devtools_frontend = "none"
          /\ d.runs >= 1 => (d.consulted # d.handed)

\* C4's case: under a file: override a request under the bundled prefix whose
\* key is in the bundled table got its result from the file resolver.
C4_Witness ==
  /\ build = "part_000"
  /\ custom_devtools_frontend = "file"
  /\ \E i \in Ids :
       /\ requests[i].path = <<"bundled", "/", "inspector.js">>
       /\ requests[i].did.runs = 1
       /\ requests[i].did.result.kind = "file"

\* C5: a request whose path is not under the bundled prefix is handled by no
\* provider, whatever the override: its callback receives the absent result,
\* the table is not consulted and no file read is issued.  Stated of the
\* requests whose handler was not terminated.
C5_OutsidePrefixUnhandled ==
  \A i \in Ids :
    LET d == requests[i].did
    IN  (~UnderBundled(i) /\ d.abort = "none") =>
          /\ d.runs = 1
          /\ d.result = Null
          /\ ~d.consulted
          /\ ~d.handed
          /\ ~d.posted

\* The table key the claim C6 names: the request path without query and
\* fragment, without the bundled prefix.
CanonicalUnderBundled(path) ==
  Substr(Before(path, {"?", "#"}), Len(bundled_path_prefix))

\* C6: with no override, a request under the bundled prefix has its callback
\* run before the entry point returns, with the table's bytes for the path
\* without query, fragment and prefix, and with the absent result when the
\* table has no such key.
C6_BundledLookup ==
  custom_devtools_frontend = "none" =>
    \A i \in Ids : UnderBundled(i) =>
      LET r == requests[i]
          key == CanonicalUnderBundled(r.path)
      IN  /\ r.atreturn.runs = 1
          /\ r.atreturn.result =
               IF key \in BundledTable THEN ResourceBytes(key) ELSE Null

\* C7: a file request that was answered received the file's bytes when the
\* read succeeds, and the absent result (the one a table miss delivers) when
\* the read fails or the root cannot be derived from the override URL.
C7_FileOutcome ==
  \A i \in Ids :
    LET d == requests[i].did
        candidate == Candidate(Root, d.rel)
    IN  (d.handed /\ d.runs >= 1) =>
          d.result = IF custom_devtools_frontend = "file" /\ candidate \in Files
                     THEN FileBytes(candidate)
                     ELSE Null

\* C8: in part_000, with any number of reads in flight and under every order
\* of the reads and their replies, the callback of a file request runs once
\* and receives the outcome of reading that request's own path.
C8_NoCrossTalk ==
  build = "part_000" =>
    \A i \in Ids :
      LET d == requests[i].did
          own == Candidate(Root, d.rel)
      IN  /\ (d.posted /\ d.runs >= 1) =>
               /\ d.runs = 1
               /\ d.result = IF own \in Files THEN FileBytes(own)
                             ELSE CreateNotFoundResponse
          /\ (d.posted /\ d.runs = 0) => Pending(i)

\* C8's case: two reads of distinct files were in flight together, the later
\* request was answered with a file's bytes, the earlier one with not-found.
C8_Witness ==
  /\ build = "part_000"
  /\ Len(requests) >= 2
  /\ requests[1].did.posted /\ requests[2].did.posted
  /\ requests[1].did.full_path # requests[2].did.full_path
  /\ requests[1].did.runs = 1 /\ requests[2].did.runs = 1
  /\ requests[1].did.result.kind = "http404"
  /\ requests[2].did.result.kind = "file"

\* C9: no request path makes the path normalizer or the handler crash: a path
\* whose resolution against the base URL fails is answered as not-found.
C9_NormalizerNeverAborts ==
  \A i \in Ids :
    /\ requests[i].did.abort # "out_of_range"
    /\ (UnderBundled(i) /\ ResolvePath(CanonicalUnderBundled(requests[i].path)) = <<>>) =>
         requests[i].did.runs = 1 /\ IsNotFound(requests[i].did.result)

\* The result the claim C10 names: the remainder after the first separator
\* that follows the marker, the path itself when there is none or when the
\* path does not start with the marker.
RemainderAfterMarker(path, prefix) ==
  IF StartsWith(path, prefix) /\ Find(path, "/", Len(prefix) + 1) # npos
  THEN Substr(path, Find(path, "/", Len(prefix) + 1))
  ELSE path

\* C10: StripDevToolsRevisionWithPrefix returns the remainder after the next
\* separator that follows the marker, whatever the length of the revision
\* segment between them, and the path unchanged when no separator follows or
\* the path does not start with the marker.
C10_StripRemainder ==
  \A i \in Ids :
    \A k \in 1..Len(requests[i].did.strips) :
      LET call == requests[i].did.strips[k]
      IN  call.result = RemainderAfterMarker(call.path, call.prefix)

====
